---------------------------- MODULE Spec2Model ----------------------------
(***************************************************************************)
(* LightController (apps/lights.py): one lighting zone driven by presence, *)
(* light state changes, lux, media, a re-automate button and timers.       *)
(*                                                                         *)
(* Time is counted in whole seconds.  Text values that the code formats or *)
(* searches (block-window times, action names, the "why" of a block) are   *)
(* sequences of one-character strings, so that parsing and substring       *)
(* search are computed the way the code computes them.                     *)
(***************************************************************************)
EXTENDS Integers, Sequences, FiniteSets, Bags, TLC

VARIABLES
    mode,                 \* self._mode
    presence,             \* self._presence
    off_timer,            \* self._off_timer (handle or None)
    motion_reauto_timer,  \* self._motion_reauto_timer (handle or None)
    expected_echo,        \* self._expected_echo: light -> expectation or None
    last_cmd_by_entity,   \* self._last_cmd_by_entity: light -> (state, ts) or None
    media_playing,        \* self._media_playing
    before_media_brightness_pct, \* self._before_media_brightness_pct
    al_manual_timers,     \* self._al_manual_timers: light -> handle or None
    auto_brightness_pct,  \* self._auto_brightness_pct (NoInt when not configured)
    block_windows,        \* self._block_windows
    quiet,                \* self._quiet_start / self._quiet_end
    block_actions_default,\* self._block_actions_default
    status,               \* the published status entity (set_state)
    timers,               \* the host scheduler: bag of pending run_in callbacks
    now,                  \* _now_ts(), seconds since start
    clock,                \* datetime.now(): minute of the day and weekday
    motion,               \* host state of each presence sensor
    light,                \* host state of each light ("on" / "off")
    lux,                  \* host state of the lux sensor
    media,                \* host state of the media player
    events,               \* inbound events delivered so far
    calls,                \* call_service invocations of the last handler
    trace,                \* branches the last handler took (its log lines)
    last                  \* the last event dispatched

vars == << mode, presence, off_timer, motion_reauto_timer, expected_echo,
           last_cmd_by_entity, media_playing, before_media_brightness_pct,
           al_manual_timers, auto_brightness_pct, block_windows, quiet, block_actions_default,
           status, timers, now, clock, motion, light, lux, media,
           events, calls, trace, last >>

None == "None"

(***************************************************************************)
(* Bounds of the model.                                                    *)
(***************************************************************************)
MaxTime == 4        \* the clock stops after this many seconds
MaxEvents == 4      \* at most this many inbound events are delivered
MaxManualOff == 2   \* at most this many manual-off callbacks pending at once

(***************************************************************************)
(* Configuration (self.args), in seconds.                                  *)
(***************************************************************************)
Lights == {"light.a", "light.b"}
MotionEntities == {"binary_sensor.m1", "binary_sensor.m2"}
delay_off == 1
manual_off_reauto_delay == 2
motion_reauto_seconds == 1
boot_grace == 1
echo_window == 1
echo_max_window == 3
al_manual_reset_seconds == 1
lux_threshold == 10
media_dim_brightness_pct == 20
al_switch == "switch.al"
started_ts == 0
al_take_over_on_manual == TRUE
al_use_targets == TRUE
only_when_dark == TRUE
LightSeq == <<"light.a", "light.b">>
reauto_button == "button.reautomate_zone"

(***************************************************************************)
(* Text helpers.                                                           *)
(***************************************************************************)
Digits == <<"0","1","2","3","4","5","6","7","8","9">>
IsDigit(ch) == \E i \in 1..10 : Digits[i] = ch
DigitVal(ch) == (CHOOSE i \in 1..10 : Digits[i] = ch) - 1

Lower(ch) ==
    CASE ch = "O" -> "o" [] ch = "N" -> "n" [] ch = "F" -> "f"
      [] ch = "M" -> "m" [] ch = "T" -> "t" [] ch = "U" -> "u"
      [] ch = "E" -> "e" [] OTHER -> ch

LowerStr(s) == [i \in 1..Len(s) |-> Lower(s[i])]

RECURSIVE Strip(_)
Strip(s) ==
    IF s = <<>> THEN s
    ELSE IF Head(s) = " " THEN Strip(Tail(s))
    ELSE IF s[Len(s)] = " " THEN Strip(SubSeq(s, 1, Len(s) - 1))
    ELSE s

\* Python's "needle in hay" on strings
Contains(hay, needle) ==
    \E i \in 1..(Len(hay) - Len(needle) + 1) :
        SubSeq(hay, i, i + Len(needle) - 1) = needle

\* Python's str.split(":")
RECURSIVE Split(_)
Split(s) ==
    IF \A i \in 1..Len(s) : s[i] # ":" THEN << s >>
    ELSE LET k == CHOOSE i \in 1..Len(s) :
                      s[i] = ":" /\ \A j \in 1..(i - 1) : s[j] # ":"
         IN << SubSeq(s, 1, k - 1) >> \o Split(SubSeq(s, k + 1, Len(s)))

RECURSIVE DigitsVal(_)
DigitsVal(s) ==
    IF s = <<>> THEN 0
    ELSE DigitsVal(SubSeq(s, 1, Len(s) - 1)) * 10 + DigitVal(s[Len(s)])

\* Python's int(str): surrounding blanks and one sign allowed; anything else raises
ParseInt(s) ==
    LET t == Strip(s)
        signed == t # <<>> /\ Head(t) \in {"+", "-"}
        d == IF signed THEN Tail(t) ELSE t
    IN IF d # <<>> /\ \A i \in 1..Len(d) : IsDigit(d[i])
       THEN [ok |-> TRUE,
             v |-> IF signed /\ Head(t) = "-" THEN 0 - DigitsVal(d) ELSE DigitsVal(d)]
       ELSE [ok |-> FALSE, v |-> 0]

S_on == <<"o","n">>
S_off == <<"o","f","f">>
S_on_off == <<"o","n","_","o","f","f">>


\* an absent text (Python None where a string is expected), and str() of a value
NoText == <<"None">>
Str(v) == IF v = NoText THEN <<"N","o","n","e">> ELSE v

(***************************************************************************)
(* Time-based blocking.  A configured action value is absent, a boolean    *)
(* or a string; a parsed time is [ok, v] with ok = FALSE for None.         *)
(***************************************************************************)
NoAction == [t |-> "none"]
BoolAction(b) == [t |-> "bool", b |-> b]
StrAction(s) == [t |-> "str", s |-> s]

\* "on" / "off" / "on_off" as text, or None
_norm_actions(val) ==
    IF val.t = "bool" THEN (IF val.b THEN S_on_off ELSE NoText)
    ELSE IF val.t = "str"
         THEN LET v == LowerStr(Strip(val.s))
              IN IF v \in {S_on, S_off, S_on_off} THEN v ELSE NoText
    ELSE NoText

NoTime == [ok |-> FALSE, v |-> 0]

_parse_hhmm(s) ==
    LET parts == Split(Str(s))
    IN IF Len(parts) < 2 THEN NoTime
       ELSE LET h == ParseInt(parts[1])
                m == ParseInt(parts[2])
            IN IF h.ok /\ m.ok THEN [ok |-> TRUE, v |-> h.v * 60 + m.v]
               ELSE NoTime

\* faulty variant: the end minute itself still belongs to the window
WithinWindowInclusiveEnd(start_min, end_min, now_min) ==
    IF ~start_min.ok \/ ~end_min.ok THEN FALSE
    ELSE IF start_min.v = end_min.v THEN FALSE
    ELSE IF start_min.v < end_min.v
         THEN start_min.v <= now_min /\ now_min <= end_min.v
    ELSE now_min >= start_min.v \/ now_min <= end_min.v

_within_window(start_min, end_min, now_min) ==
    IF ~start_min.ok \/ ~end_min.ok THEN FALSE
    ELSE IF start_min.v = end_min.v THEN FALSE
    ELSE IF start_min.v < end_min.v
         THEN start_min.v <= now_min /\ now_min < end_min.v
    ELSE now_min >= start_min.v \/ now_min < end_min.v

Take3(s) == SubSeq(s, 1, IF Len(s) < 3 THEN Len(s) ELSE 3)

WhyText(actions, start, end) ==
    actions \o <<" ">> \o Str(start) \o <<"-">> \o Str(end)

\* what _blocked_now returns, with the action set the reason was built from
NotBlocked == [blocked |-> FALSE, why |-> <<>>, actions |-> NoText]

\* the loop of _blocked_now over windows i, i+1, ... (days: <<>> when not given)
RECURSIVE WindowScan(_, _, _, _)
WindowScan(ws, dflt, clk, i) ==
    IF i > Len(ws) THEN NotBlocked
    ELSE LET w == ws[i]
             s == _parse_hhmm(w.start)
             e == _parse_hhmm(w.end)
             days == {Take3(LowerStr(w.days[k])) : k \in 1..Len(w.days)}
         IN IF ~_within_window(s, e, clk.min)
            THEN WindowScan(ws, dflt, clk, i + 1)
            ELSE IF days # {} /\ Take3(clk.day) \notin days
            THEN WindowScan(ws, dflt, clk, i + 1)
            ELSE LET n == _norm_actions(w.actions)
                     actions == IF n = NoText THEN dflt ELSE n
                 IN [blocked |-> TRUE, why |-> WhyText(actions, w.start, w.end),
                     actions |-> actions]

\* (blocked, reason) for the windows ws, the legacy pair q and the default actions
BlockedAt(ws, q, dflt, clk) ==
    LET hit == WindowScan(ws, dflt, clk, 1)
    IN IF hit.blocked THEN hit
       ELSE LET s == IF q.start # NoText /\ q.start # <<>>
                     THEN _parse_hhmm(q.start) ELSE NoTime
                e == IF q.end # NoText /\ q.end # <<>>
                     THEN _parse_hhmm(q.end) ELSE NoTime
            IN IF _within_window(s, e, clk.min)
               THEN [blocked |-> TRUE, why |-> WhyText(dflt, q.start, q.end),
                     actions |-> dflt]
               ELSE NotBlocked

_blocked_now == BlockedAt(block_windows, quiet, block_actions_default, clock)

AllowedGiven(b, action) ==
    IF ~b.blocked THEN TRUE
    ELSE IF Contains(b.why, S_on_off) THEN FALSE
    ELSE IF action = "on" /\ Contains(b.why, <<" ">> \o S_on) THEN FALSE
    ELSE IF action = "off" /\ Contains(b.why, <<" ">> \o S_off) THEN FALSE
    ELSE TRUE

_automation_allowed(action) == AllowedGiven(_blocked_now, action)


(***************************************************************************)
(* The controller's fields as one record, so that a handler is the         *)
(* composition of the methods it calls.  calls and trace start empty for   *)
(* every handler.                                                          *)
(***************************************************************************)
NoInt == 0 - 1          \* Python None where a number is expected
KeyAbsent == 0 - 2      \* a key that is not in a dict of numbers
NoEcho == [none |-> TRUE]
NoCmd == [none |-> TRUE]

Self ==
    [mode |-> mode, presence |-> presence, off_timer |-> off_timer,
     motion_reauto_timer |-> motion_reauto_timer,
     expected_echo |-> expected_echo,
     last_cmd_by_entity |-> last_cmd_by_entity,
     media_playing |-> media_playing,
     before_media_brightness_pct |-> before_media_brightness_pct,
     al_manual_timers |-> al_manual_timers,
     status |-> status, timers |-> timers,
     calls |-> <<>>, trace |-> <<>>,
     failing |-> {}, raised |-> FALSE]

\* the handler runs while the host's call_service raises for the services in F
Failing(c, F) == [c EXCEPT !.failing = F]

Commit(c) ==
    /\ mode' = c.mode
    /\ presence' = c.presence
    /\ off_timer' = c.off_timer
    /\ motion_reauto_timer' = c.motion_reauto_timer
    /\ expected_echo' = c.expected_echo
    /\ last_cmd_by_entity' = c.last_cmd_by_entity
    /\ media_playing' = c.media_playing
    /\ before_media_brightness_pct' = c.before_media_brightness_pct
    /\ al_manual_timers' = c.al_manual_timers
    /\ status' = c.status
    /\ timers' = c.timers
    /\ calls' = c.calls
    /\ trace' = c.trace

\* c.raised: an exception is propagating, the statements that follow in the
\* handler are not executed
_logx(c, tag) == IF c.raised THEN c ELSE [c EXCEPT !.trace = Append(@, tag)]

call_service(c, svc, ent, bp, ct) ==
    IF c.raised THEN c
    ELSE IF svc \in c.failing
    THEN [c EXCEPT !.raised = TRUE, !.trace = Append(@, <<"call_service_raised", svc>>)]
    ELSE [c EXCEPT !.calls = Append(@, [svc |-> svc, entity_id |-> ent,
                                        brightness_pct |-> bp,
                                        color_temp_kelvin |-> ct])]

\* except Exception: the failure is logged and the caller goes on
Caught(c) == IF c.raised THEN [c EXCEPT !.raised = FALSE] ELSE c

\* faulty variant: only the mode is written to the status entity
PublishModeOnly(c) ==
    IF c.raised THEN c ELSE
    [c EXCEPT !.status.state = c.mode, !.status.manual_state = c.mode]

\* an attribute of the status entity is the set of values published for it:
\* empty until _publish_status has written the attribute
_publish_status(c) ==
    IF c.raised THEN c ELSE
    [c EXCEPT !.status = [state |-> c.mode, manual_state |-> c.mode,
                          presence |-> {c.presence},
                          media_playing |-> {c.media_playing}]]

(***************************************************************************)
(* The host scheduler.  A pending callback is [cb, due, ent, tracked];     *)
(* tracked says that the handle the controller holds for this purpose (and *)
(* entity) is this callback's: handles are unique, so a handle kept after  *)
(* its callback was cancelled or has fired cancels nothing.  A handle is   *)
(* None or the name of the callback it was returned for.                   *)
(***************************************************************************)
Untrack(B, cb, ent) ==
    LET S == BagToSet(B)
        f(t) == IF t.cb = cb /\ t.ent = ent THEN [t EXCEPT !.tracked = FALSE] ELSE t
        n(u) == (IF u \in S /\ f(u) = u THEN B[u] ELSE 0)
                + (IF [u EXCEPT !.tracked = TRUE] \in S
                      /\ f([u EXCEPT !.tracked = TRUE]) = u
                      /\ u.tracked = FALSE
                   THEN B[[u EXCEPT !.tracked = TRUE]] ELSE 0)
    IN [u \in {f(t) : t \in S} |-> n(u)]

\* run_in: kept says whether the caller stores the returned handle
run_in(c, cb, delay, ent, kept) ==
    [c EXCEPT !.timers =
        (IF kept THEN Untrack(@, cb, ent) ELSE @)
        (+) SetToBag({[cb |-> cb, due |-> now + delay, ent |-> ent,
                       tracked |-> kept]})]

cancel_timer(B, handle, ent) ==
    LET S == {t \in BagToSet(B) : ~(t.cb = handle /\ t.ent = ent /\ t.tracked)}
    IN [t \in S |-> B[t]]

\* A faulty variant of _cancel_timer_safe: nothing is cancelled.  C12 must tell
\* it from the code.
CancelNothing(c, handle, ent) == c

_cancel_timer_safe(c, handle, ent) ==
    IF handle = None THEN c
    ELSE [c EXCEPT !.timers = cancel_timer(@, handle, ent)]

(***************************************************************************)
(* Reads of the host's state.                                              *)
(***************************************************************************)
IsOn(v) == v = "on"
IsPresence(v) == v \in {"on", "home", "occupied", "true", "1"}

\* lux is a number, or NoInt for a missing or non-numeric reading
_is_dark_enough ==
    IF ~only_when_dark THEN TRUE
    ELSE IF lux = NoInt THEN TRUE
    ELSE lux <= lux_threshold

_any_light_on == \E l \in Lights : IsOn(light[l])

_any_motion_on(m) == \E ent \in MotionEntities : IsPresence(m[ent])

\* attribute "brightness" of a light, b[l] while it is on: a number only then
BrightnessAttr(l, b) == IF IsOn(light[l]) THEN b[l] ELSE NoInt

(***************************************************************************)
(* Echo protection.                                                        *)
(***************************************************************************)
Min(a, b) == IF a <= b THEN a ELSE b
Max(a, b) == IF a >= b THEN a ELSE b

\* A faulty variant of _mark_expected_echo: the expectation always lasts
\* echo_max_window.  C3 must tell it from the code.
MarkEchoForMaxWindow(c, state) ==
    [c EXCEPT
       !.expected_echo = [l \in Lights |->
           [until |-> now + echo_max_window, expected |-> state, logged |-> FALSE]],
       !.last_cmd_by_entity = [l \in Lights |-> [state |-> state, ts |-> now]]]

_mark_expected_echo(c, state) ==
    LET until == Min(now + echo_window, now + echo_max_window)
    IN [c EXCEPT
          !.expected_echo = [l \in Lights |->
              [until |-> until, expected |-> state, logged |-> FALSE]],
          !.last_cmd_by_entity = [l \in Lights |-> [state |-> state, ts |-> now]]]

\* A faulty variant of _ignore_if_expected_echo: the expectation is consumed by
\* the first matching notification.  C2 must tell it from the code.
IgnoreEchoOnce(c, entity, old, new) ==
    LET exp == c.expected_echo[entity]
        matches == \/ exp.expected = "on" /\ ~IsOn(old) /\ IsOn(new)
                   \/ exp.expected = "off" /\ IsOn(old) /\ ~IsOn(new)
        gone == [c EXCEPT !.expected_echo[entity] = NoEcho]
    IN IF exp = NoEcho THEN [c |-> c, ignore |-> FALSE]
       ELSE IF now > exp.until THEN [c |-> gone, ignore |-> FALSE]
       ELSE IF matches /\ exp.logged THEN [c |-> gone, ignore |-> FALSE]
       ELSE IF matches
            THEN [c |-> _logx([c EXCEPT !.expected_echo[entity].logged = TRUE],
                              <<"ignoring_echo">>),
                  ignore |-> TRUE]
       ELSE [c |-> c, ignore |-> FALSE]

\* A faulty variant of _ignore_if_expected_echo: any notification within the
\* window is ignored, whatever its direction.  C4 must tell it from the code.
IgnoreEchoAnyDirection(c, entity, old, new) ==
    LET exp == c.expected_echo[entity]
    IN IF exp = NoEcho THEN [c |-> c, ignore |-> FALSE]
       ELSE IF now > exp.until
            THEN [c |-> [c EXCEPT !.expected_echo[entity] = NoEcho], ignore |-> FALSE]
       ELSE [c |-> IF ~exp.logged
                   THEN _logx([c EXCEPT !.expected_echo[entity].logged = TRUE],
                              <<"ignoring_echo">>)
                   ELSE c,
             ignore |-> TRUE]

\* [c, ignore]: the controller afterwards, and the returned boolean
_ignore_if_expected_echo(c, entity, old, new) ==
    LET exp == c.expected_echo[entity]
        old_on == IsOn(old)
        new_on == IsOn(new)
        seen == _logx([c EXCEPT !.expected_echo[entity].logged = TRUE],
                     <<"ignoring_echo">>)
    IN IF exp = NoEcho THEN [c |-> c, ignore |-> FALSE]
       ELSE IF now > exp.until
            THEN [c |-> [c EXCEPT !.expected_echo[entity] = NoEcho], ignore |-> FALSE]
       ELSE IF exp.expected = "on" /\ ~old_on /\ new_on
            THEN [c |-> IF ~exp.logged THEN seen ELSE c, ignore |-> TRUE]
       ELSE IF exp.expected = "off" /\ old_on /\ ~new_on
            THEN [c |-> IF ~exp.logged THEN seen ELSE c, ignore |-> TRUE]
       ELSE [c |-> c, ignore |-> FALSE]

\* A faulty variant of _recent_app_change: the window is echo_window alone.  C17
\* must tell it from the code.
RecentWithinEchoWindow(c, entity) ==
    LET lastc == c.last_cmd_by_entity[entity]
    IN IF lastc = NoCmd THEN FALSE
       ELSE (now - lastc.ts) <= echo_window

_recent_app_change(c, entity) ==
    LET seconds == Max(echo_window, 3)
        lastc == c.last_cmd_by_entity[entity]
    IN IF lastc = NoCmd THEN FALSE
       ELSE (now - lastc.ts) <= seconds

(***************************************************************************)
(* Adaptive Lighting helpers.                                              *)
(***************************************************************************)
Abs(x) == IF x < 0 THEN 0 - x ELSE x

\* Python's round(n / d) for n >= 0, d > 0: halves go to the even neighbour
RoundDiv(n, d) ==
    LET q == n \div d
        r == n % d
    IN IF 2 * r < d THEN q
       ELSE IF 2 * r > d THEN q + 1
       ELSE IF q % 2 = 0 THEN q ELSE q + 1

_mireds_to_kelvin(mireds) ==
    IF mireds = NoInt \/ mireds <= 0 THEN NoInt
    ELSE RoundDiv(1000000, mireds)

\* the attributes the Adaptive Lighting switch exposes
AlAttrs == [brightness_pct |-> 40, brightness |-> NoInt,
            color_temp_kelvin |-> 3000, color_temp |-> NoInt,
            adapt_brightness |-> TRUE, adapt_color |-> TRUE]

_al_switch_attrs == AlAttrs

_al_current_targets ==
    LET attrs == _al_switch_attrs
        bri_t == IF attrs.brightness_pct # NoInt THEN attrs.brightness_pct
                 ELSE attrs.brightness
        ct == IF attrs.color_temp_kelvin # NoInt THEN attrs.color_temp_kelvin
              ELSE _mireds_to_kelvin(attrs.color_temp)
    IN [bri |-> bri_t, ct_kelvin |-> ct,
        adapt_b |-> attrs.adapt_brightness, adapt_c |-> attrs.adapt_color]

_al_set_manual_control(c, ent) ==
    IF al_switch = None \/ ~al_take_over_on_manual THEN c
    ELSE Caught(call_service(c, "adaptive_lighting/set_manual_control", ent, NoInt, NoInt))

_al_reset(c, ent) ==
    IF al_switch = None THEN c
    ELSE Caught(call_service(c, "adaptive_lighting/reset", ent, NoInt, NoInt))

\* A faulty variant of _al_schedule_reset_for: the running manual hold is not
\* cancelled.  C14 must tell it from the code.
AlScheduleResetKeepingOld(c, entity) ==
    IF al_manual_reset_seconds = 0 THEN [c EXCEPT !.al_manual_timers[entity] = None]
    ELSE [run_in(c, "al_reset", al_manual_reset_seconds, entity, TRUE)
            EXCEPT !.al_manual_timers[entity] = "al_reset"]

_al_schedule_reset_for(c, entity) ==
    LET h == c.al_manual_timers[entity]
        c1 == [c EXCEPT !.al_manual_timers[entity] = None]
        c2 == _cancel_timer_safe(c1, h, entity)
    IN IF al_manual_reset_seconds = 0 THEN c2
       ELSE [run_in(c2, "al_reset", al_manual_reset_seconds, entity, TRUE)
               EXCEPT !.al_manual_timers[entity] = "al_reset"]

_al_reset_timer_cb(c, ent) ==
    LET c1 == [c EXCEPT !.al_manual_timers[ent] = None,
                        !.timers = Untrack(@, "al_reset", ent)]
    IN _al_reset(_logx(c1, <<"manual_window_elapsed">>), ent)

_al_is_change_like_al(attr, new) ==
    IF al_switch = None
       \/ attr \notin {"brightness", "brightness_pct", "color_temp", "color_temp_kelvin"}
    THEN FALSE
    ELSE LET t == _al_current_targets
             val == IF attr = "brightness"
                    THEN (IF new = NoInt THEN NoInt ELSE RoundDiv(new * 100, 255))
                    ELSE new
             valk == IF attr = "color_temp" THEN _mireds_to_kelvin(new) ELSE new
         IN IF attr \in {"brightness", "brightness_pct"} /\ t.bri # NoInt
               /\ val # NoInt /\ Abs(t.bri - val) <= 3
            THEN TRUE
            ELSE attr \in {"color_temp", "color_temp_kelvin"} /\ t.ct_kelvin # NoInt
                 /\ valk # NoInt /\ Abs(t.ct_kelvin - valk) <= 150

NumOrZero(v) == IF v = NoInt THEN 0 ELSE v

_changed_meaningfully(attribute, old, new) ==
    LET o == NumOrZero(old)
        n == NumOrZero(new)
    IN IF attribute \in {"brightness", "brightness_pct"} THEN Abs(n - o) >= 5
       ELSE IF attribute = "color_temp_kelvin" THEN Abs(n - o) >= 100
       ELSE IF attribute = "color_temp" THEN Abs(n - o) >= 5
       ELSE TRUE

(***************************************************************************)
(* Light control.                                                          *)
(***************************************************************************)
IsSwitch(l) == FALSE    \* no configured entity id starts with "switch."
IsLight(l) == TRUE      \* every configured entity id starts with "light."

RECURSIVE TurnOnEach(_, _, _, _)
TurnOnEach(c, i, bp, ct) ==
    IF i > Len(LightSeq) THEN c
    ELSE LET l == LightSeq[i]
         IN TurnOnEach(IF IsSwitch(l)
                       THEN call_service(c, "switch/turn_on", l, NoInt, NoInt)
                       ELSE call_service(c, "light/turn_on", l, bp, ct),
                       i + 1, bp, ct)

_turn_on(c, reason) ==
    LET c1 == _mark_expected_echo(c, "on")
        use == al_switch # None /\ al_use_targets
        t == _al_current_targets
        bri_target == IF use THEN t.bri ELSE NoInt
        ct_kelvin == IF use THEN t.ct_kelvin ELSE NoInt
        adapt_b == IF use THEN t.adapt_b ELSE TRUE
        adapt_c == IF use THEN t.adapt_c ELSE TRUE
        bp0 == IF c.media_playing /\ media_dim_brightness_pct # NoInt
               THEN media_dim_brightness_pct
               ELSE auto_brightness_pct
        bp == IF bp0 = NoInt /\ bri_target # NoInt /\ adapt_b THEN bri_target ELSE bp0
    IN _logx(TurnOnEach(c1, 1, bp, IF ct_kelvin # NoInt /\ adapt_c THEN ct_kelvin ELSE NoInt),
             <<"turn_on", reason>>)

RECURSIVE TurnOffEach(_, _)
TurnOffEach(c, i) ==
    IF i > Len(LightSeq) THEN c
    ELSE LET l == LightSeq[i]
         IN TurnOffEach(call_service(c, IF IsSwitch(l) THEN "switch/turn_off"
                                        ELSE "light/turn_off", l, NoInt, NoInt),
                        i + 1)

_turn_off(c, reason) ==
    _logx(TurnOffEach(_mark_expected_echo(c, "off"), 1), <<"turn_off", reason>>)

_schedule_off(c) ==
    LET c1 == _cancel_timer_safe(c, c.off_timer, "-")
    IN _logx([run_in(c1, "auto_off", delay_off, "-", TRUE)
                EXCEPT !.off_timer = "auto_off"], <<"scheduled_auto_off">>)

_auto_off_elapsed(c) ==
    LET c1 == IF c.mode = "auto" /\ ~c.presence
              THEN (IF _automation_allowed("off")
                    THEN _turn_off(_logx(c, <<"auto_off_elapsed">>), "auto_off")
                    ELSE _logx(c, <<"auto_off_blocked">>))
              ELSE c
    IN IF c1.raised THEN c1
       ELSE [c1 EXCEPT !.off_timer = None, !.timers = Untrack(@, "auto_off", "-")]

(***************************************************************************)
(* Media handling.                                                         *)
(***************************************************************************)
BriToPct(b) == Max(1, Min(100, RoundDiv(b * 100, 255)))

\* faulty variant: the pre-dim brightness is captured at every application
RECURSIVE DimEachRecapturing(_, _, _, _)
DimEachRecapturing(c, i, target, b) ==
    IF i > Len(LightSeq) THEN c
    ELSE LET l == LightSeq[i]
             bri == BrightnessAttr(l, b)
             c1 == [c EXCEPT !.before_media_brightness_pct[l] =
                       IF bri # NoInt THEN BriToPct(bri) ELSE NoInt]
         IN IF ~IsLight(l) THEN DimEachRecapturing(c, i + 1, target, b)
            ELSE DimEachRecapturing(call_service(c1, "light/turn_on", l, target, NoInt),
                                    i + 1, target, b)

\* b: the brightness (0..255) each light reports when it is read
RECURSIVE DimEach(_, _, _, _)
DimEach(c, i, target, b) ==
    IF i > Len(LightSeq) THEN c
    ELSE LET l == LightSeq[i]
             bri == BrightnessAttr(l, b)
             c1 == IF ~c.raised /\ c.before_media_brightness_pct[l] = KeyAbsent
                   THEN [c EXCEPT !.before_media_brightness_pct[l] =
                            IF bri # NoInt THEN BriToPct(bri) ELSE NoInt]
                   ELSE c
         IN IF ~IsLight(l) THEN DimEach(c, i + 1, target, b)
            ELSE DimEach(call_service(c1, "light/turn_on", l, target, NoInt),
                         i + 1, target, b)

_apply_media_dimming(c, b) ==
    IF media_dim_brightness_pct = NoInt THEN c
    ELSE LET c1 == DimEach(c, 1, media_dim_brightness_pct, b)
         IN IF \E l \in Lights : IsLight(l)
            THEN _logx(c1, <<"media_dimming">>) ELSE c1

RECURSIVE AutoBriEach(_, _)
AutoBriEach(c, i) ==
    IF i > Len(LightSeq) THEN c
    ELSE LET l == LightSeq[i]
         IN AutoBriEach(IF IsLight(l)
                        THEN call_service(c, "light/turn_on", l, auto_brightness_pct, NoInt)
                        ELSE c, i + 1)

\* the dict is walked in insertion order, which is that of the light list
RECURSIVE RestoreEach(_, _)
RestoreEach(c, i) ==
    IF i > Len(LightSeq) THEN c
    ELSE LET l == LightSeq[i]
             pct == c.before_media_brightness_pct[l]
         IN RestoreEach(IF pct = KeyAbsent \/ ~IsLight(l) \/ pct = NoInt THEN c
                        ELSE call_service(c, "light/turn_on", l, pct, NoInt),
                        i + 1)

_restore_from_media(c) ==
    IF \A l \in Lights : c.before_media_brightness_pct[l] = KeyAbsent
    THEN (IF auto_brightness_pct # NoInt
          THEN _logx(AutoBriEach(c, 1), <<"media_stopped_auto_brightness">>)
          ELSE c)
    ELSE LET r == RestoreEach(c, 1)
         IN IF r.raised THEN r
            ELSE _logx([r EXCEPT
                          !.before_media_brightness_pct = [l \in Lights |-> KeyAbsent]],
                       <<"media_stopped_restoring">>)

(***************************************************************************)
(* Event handlers.                                                         *)
(***************************************************************************)
\* m: the presence sensors' states once the event is in the host's store
_on_motion(c, new, m, b) ==
    LET is_on == IsPresence(new)
        c1 == [c EXCEPT !.presence = is_on]
        c2 == IF c1.mode = "manual_on" /\ is_on
              THEN _logx([run_in(_cancel_timer_safe(c1, c1.motion_reauto_timer, "-"),
                                 "motion_reauto", motion_reauto_seconds, "-", TRUE)
                            EXCEPT !.motion_reauto_timer = "motion_reauto"],
                         <<"motion_during_manual_on">>)
              ELSE c1
        c3 == _cancel_timer_safe(c2, c2.off_timer, "-")
    IN IF c2.mode # "auto" THEN _publish_status(c2)
       ELSE IF is_on
       THEN (IF ~_automation_allowed("on")
             THEN _publish_status(_logx(c3, <<"motion_on_blocked">>))
             ELSE IF _is_dark_enough
             THEN (IF ~_any_light_on THEN _publish_status(_turn_on(c3, "motion"))
                   ELSE IF c3.media_playing /\ media_dim_brightness_pct # NoInt
                   THEN _publish_status(_apply_media_dimming(c3, b))
                   ELSE _publish_status(c3))
             ELSE _publish_status(_logx(c3, <<"motion_not_dark">>)))
       ELSE (IF ~_any_motion_on(m)
             THEN (IF _automation_allowed("off")
                   THEN _publish_status(_schedule_off(c2))
                   ELSE _publish_status(_logx(c2, <<"motion_cleared_off_blocked">>)))
             ELSE _publish_status(c2))

\* A faulty variant of _reautomate_from_manual_off: it leaves a mode that is
\* none of the three.  C1 must tell it from the code.
ReautomateToUnknownMode(c) ==
    _publish_status(_turn_off([c EXCEPT !.mode = "manual"], "manual_off_timeout"))

_reautomate_from_manual_off(c) ==
    LET c1 == [c EXCEPT !.mode = "auto"]
    IN IF c1.presence /\ _is_dark_enough
       THEN (IF _automation_allowed("on")
             THEN _publish_status(_turn_on(c1, "manual_off_timeout"))
             ELSE _publish_status(_logx(c1, <<"manual_off_timeout_on_blocked">>)))
       ELSE _publish_status(_turn_off(c1, "manual_off_timeout"))

\* A faulty variant of EnterManualOn: the auto-off timer is left pending.  C6
\* must tell it from the code.
EnterManualOnKeepingTimer(c, entity) ==
    LET c2 == _logx([c EXCEPT !.mode = "manual_on"], <<"manual_on">>)
    IN _al_schedule_reset_for(_al_set_manual_control(c2, entity), entity)

\* A faulty variant of EnterManualOff: no re-automation is scheduled.  C5 must
\* tell it from the code.
EnterManualOffForGood(c) ==
    LET c1 == [c EXCEPT !.mode = "manual_off"]
    IN _logx(_cancel_timer_safe(c1, c1.off_timer, "-"), <<"manual_off">>)

\* the body of "if self._mode != 'manual_on'" in _on_light_power
EnterManualOn(c, entity) ==
    LET c1 == [c EXCEPT !.mode = "manual_on"]
        c2 == _logx(_cancel_timer_safe(c1, c1.off_timer, "-"), <<"manual_on">>)
    IN _al_schedule_reset_for(_al_set_manual_control(c2, entity), entity)

\* the body of "if self._mode != 'manual_off'" in _on_light_power
EnterManualOff(c) ==
    LET c1 == [c EXCEPT !.mode = "manual_off"]
        c2 == _logx(_cancel_timer_safe(c1, c1.off_timer, "-"), <<"manual_off">>)
    IN run_in(c2, "manual_off_reauto", manual_off_reauto_delay, "-", FALSE)

_on_light_power(c, entity, old, new) ==
    LET r == _ignore_if_expected_echo(c, entity, old, new)
        c1 == r.c
        new_on == IsOn(new)
        old_on == IsOn(old)
    IN IF (now - started_ts) < boot_grace THEN _logx(c, <<"boot_grace">>)
       ELSE IF r.ignore THEN _logx(c1, <<"return_echo">>)
       ELSE IF new_on /\ ~old_on
       THEN _publish_status(IF c1.mode # "manual_on"
                            THEN EnterManualOn(c1, entity) ELSE c1)
       ELSE IF ~new_on /\ old_on
       THEN _publish_status(IF c1.mode # "manual_off"
                            THEN EnterManualOff(c1) ELSE c1)
       ELSE _publish_status(c1)

\* A faulty variant of _on_light_attr: no boot grace.  C16 must tell it from the
\* code.
OnLightAttrNoBootGrace(c, entity, attribute, old, new) ==
    LET c1 == IF c.mode # "manual_on"
              THEN _logx(_cancel_timer_safe([c EXCEPT !.mode = "manual_on"],
                                            c.off_timer, "-"), <<"manual_tweak">>)
              ELSE c
    IN IF _recent_app_change(c, entity) THEN _logx(c, <<"recent_app_change">>)
       ELSE IF _al_is_change_like_al(attribute, new) THEN _logx(c, <<"like_al">>)
       ELSE IF ~_changed_meaningfully(attribute, old, new) THEN _logx(c, <<"jitter">>)
       ELSE IF ~IsOn(light[entity]) THEN _logx(c, <<"light_not_on">>)
       ELSE _publish_status(
                _al_schedule_reset_for(_al_set_manual_control(c1, entity), entity))

_on_light_attr(c, entity, attribute, old, new) ==
    LET c1 == IF c.mode # "manual_on"
              THEN _logx(_cancel_timer_safe([c EXCEPT !.mode = "manual_on"],
                                            c.off_timer, "-"), <<"manual_tweak">>)
              ELSE c
    IN IF (now - started_ts) < boot_grace THEN _logx(c, <<"boot_grace">>)
       ELSE IF _recent_app_change(c, entity) THEN _logx(c, <<"recent_app_change">>)
       ELSE IF _al_is_change_like_al(attribute, new) THEN _logx(c, <<"like_al">>)
       ELSE IF ~_changed_meaningfully(attribute, old, new) THEN _logx(c, <<"jitter">>)
       ELSE IF ~IsOn(light[entity]) THEN _logx(c, <<"light_not_on">>)
       ELSE _publish_status(
                _al_schedule_reset_for(_al_set_manual_control(c1, entity), entity))

_on_lux_changed(c, b) ==
    IF c.mode = "auto" /\ c.presence /\ _is_dark_enough
    THEN (IF ~_any_light_on
          THEN (IF _automation_allowed("on")
                THEN _publish_status(_turn_on(c, "lux_dark_now"))
                ELSE _publish_status(_logx(c, <<"dark_on_blocked">>)))
          ELSE IF c.media_playing /\ media_dim_brightness_pct # NoInt
          THEN _publish_status(_apply_media_dimming(c, b))
          ELSE _publish_status(c))
    ELSE _publish_status(c)

\* faulty variant: the media overlay is applied and removed in every mode
OnMediaStateAnyMode(c, new, b) ==
    LET playing == new = "playing"
        c1 == [c EXCEPT !.media_playing = playing]
    IN IF playing
       THEN (IF _is_dark_enough /\ _any_light_on
             THEN _publish_status(_apply_media_dimming(c1, b))
             ELSE _publish_status(c1))
       ELSE (IF _any_light_on THEN _publish_status(_restore_from_media(c1))
             ELSE _publish_status(c1))

_on_media_state(c, new, b) ==
    LET playing == new = "playing"
        c1 == [c EXCEPT !.media_playing = playing]
    IN IF c1.mode # "auto" THEN _publish_status(c1)
       ELSE IF playing
       THEN (IF _is_dark_enough /\ _any_light_on
             THEN _publish_status(_apply_media_dimming(c1, b))
             ELSE _publish_status(c1))
       ELSE (IF _any_light_on THEN _publish_status(_restore_from_media(c1))
             ELSE _publish_status(c1))

\* faulty variant: the quick re-automate callback evaluates without leaving
\* manual_on
ReautomateFromMotionKeepingMode(c) ==
    LET c1 == [c EXCEPT !.motion_reauto_timer = None,
                        !.timers = Untrack(@, "motion_reauto", "-")]
    IN IF c1.presence /\ _is_dark_enough
       THEN (IF _automation_allowed("on")
             THEN _publish_status(_turn_on(c1, "motion_reauto"))
             ELSE _publish_status(_logx(c1, <<"motion_reauto_on_blocked">>)))
       ELSE _publish_status(_turn_off(c1, "motion_reauto"))

_reautomate_from_motion(c) ==
    LET c1 == [c EXCEPT !.motion_reauto_timer = None, !.mode = "auto",
                        !.timers = Untrack(@, "motion_reauto", "-")]
    IN IF c1.presence /\ _is_dark_enough
       THEN (IF _automation_allowed("on")
             THEN _publish_status(_turn_on(c1, "motion_reauto"))
             ELSE _publish_status(_logx(c1, <<"motion_reauto_on_blocked">>)))
       ELSE _publish_status(_turn_off(c1, "motion_reauto"))

\* ent: the entity_id of the button.press service call
_on_button_press(c, ent) ==
    LET c1 == [c EXCEPT !.mode = "auto"]
    IN IF ent = None THEN c
       ELSE IF ent # reauto_button THEN c
       ELSE IF c1.presence /\ _is_dark_enough
       THEN _publish_status(_turn_on(_logx(c1, <<"button_accepted">>), "event"))
       ELSE _publish_status(_turn_off(_logx(c1, <<"button_accepted">>), "event"))

(***************************************************************************)
(* The zone's configuration and surroundings.                              *)
(***************************************************************************)
T(h1, h2, m1, m2) == <<h1, h2, ":", m1, m2>>
Mon == <<"m","o","n">>

ZoneWindows ==
    << [start |-> T("0","8","0","0"), end |-> T("0","9","0","0"),
        days |-> <<>>, actions |-> StrAction(S_on)],
       [start |-> T("1","2","0","0"), end |-> T("1","3","0","0"),
        days |-> <<>>, actions |-> StrAction(S_off)],
       [start |-> T("2","2","0","0"), end |-> T("0","7","0","0"),
        days |-> <<>>, actions |-> StrAction(S_on_off)] >>

\* minutes of the day the wall clock is sampled at: 12:30, 17:00 and 23:30
ClockSamples == {750, 1020, 1410}
LuxValues == {5, 50}
\* brightness (0..255) a light may report: 20 %, 60 %, 80 %
BriLevels == {51, 153, 204}
BriReads == {[l \in Lights |-> IF l = "light.a" THEN 204 ELSE 153],
             [l \in Lights |-> 51]}

NoLast == [op |-> "initialize", ent |-> "-", old |-> "-", new |-> "-"]

Init ==
    /\ mode = "auto"
    /\ presence = FALSE
    /\ off_timer = None
    /\ motion_reauto_timer = None
    /\ expected_echo = [l \in Lights |-> NoEcho]
    /\ last_cmd_by_entity = [l \in Lights |-> NoCmd]
    /\ media_playing = FALSE
    /\ before_media_brightness_pct = [l \in Lights |-> KeyAbsent]
    /\ al_manual_timers = [l \in Lights |-> None]
    /\ auto_brightness_pct = NoInt
    /\ block_windows = ZoneWindows
    /\ quiet = [start |-> NoText, end |-> NoText]
    /\ block_actions_default = S_on_off
    /\ status = [state |-> "auto", manual_state |-> "auto",
                 presence |-> {}, media_playing |-> {}]
    /\ timers = EmptyBag
    /\ now = started_ts
    /\ clock \in {[min |-> mn, day |-> Mon] : mn \in ClockSamples}
    /\ motion = [ent \in MotionEntities |-> "off"]
    /\ light = [l \in Lights |-> "off"]
    /\ lux = 5
    /\ media = "paused"
    /\ events = 0
    /\ calls = <<>>
    /\ trace = <<>>
    /\ last = NoLast

Config == << auto_brightness_pct, block_windows, quiet, block_actions_default >>
World == << now, clock, motion, light, lux, media >>
Controller == << mode, presence, off_timer, motion_reauto_timer, expected_echo,
                 last_cmd_by_entity, media_playing, before_media_brightness_pct,
                 al_manual_timers, status, timers >>

PendingOf(B, cb) == {t \in BagToSet(B) : t.cb = cb}
Due(cb) == {t \in PendingOf(timers, cb) : t.due <= now}
Fired(t) == [Self EXCEPT !.timers = @ (-) SetToBag({t})]
CountOf(B, cb) ==
    LET S == PendingOf(B, cb)
        RECURSIVE Sum(_)
        Sum(X) == IF X = {} THEN 0
                  ELSE LET x == CHOOSE y \in X : TRUE IN B[x] + Sum(X \ {x})
    IN Sum(S)

\* an inbound event is delivered: the handler's record of it
Inbound(op, ent, old, new) ==
    /\ events < MaxEvents
    /\ events' = events + 1
    /\ last' = [op |-> op, ent |-> ent, old |-> old, new |-> new]

\* a scheduled callback runs
Callback(op, ent) ==
    /\ last' = [op |-> op, ent |-> ent, old |-> "-", new |-> "-"]
    /\ UNCHANGED << events, Config, World >>

\* a second passes, once the callbacks that are due have run; the wall clock
\* is then at any of the sampled minutes
Tick ==
    /\ now < MaxTime
    /\ \A t \in BagToSet(timers) : t.due > now
    /\ now' = now + 1
    /\ \E mn \in ClockSamples : clock' = [clock EXCEPT !.min = mn]
    /\ calls' = <<>> /\ trace' = <<>>
    /\ last' = [op |-> "tick", ent |-> "-", old |-> "-", new |-> "-"]
    /\ UNCHANGED << Controller, Config, events, motion, light, lux, media >>

Motion ==
    \E ent \in MotionEntities : \E new \in {"on", "off"} \ {motion[ent]} :
      \E b \in BriReads :
        LET m == [motion EXCEPT ![ent] = new]
        IN /\ Inbound("motion", ent, motion[ent], new)
           /\ motion' = m
           /\ Commit(_on_motion(Self, new, m, b))
           /\ UNCHANGED << Config, now, clock, light, lux, media >>

LightPower ==
    \E l \in Lights : \E new \in {"on", "off"} \ {light[l]} :
        LET c == _on_light_power(Self, l, light[l], new)
        IN /\ Inbound("light_power", l, light[l], new)
           /\ CountOf(c.timers, "manual_off_reauto") <= MaxManualOff
           /\ light' = [light EXCEPT ![l] = new]
           /\ Commit(c)
           /\ UNCHANGED << Config, now, clock, motion, lux, media >>

\* the attribute notifications the host may deliver, by name
AttrChange ==
    [id \in {"bri 80->20", "bri 20->80", "bri 80->42", "bri 60->59",
             "pct 80->60", "kelvin 4000->3100", "kelvin 4000->3500"} |->
       CASE id = "bri 80->20" -> [attribute |-> "brightness", old |-> 204, new |-> 51]
         [] id = "bri 20->80" -> [attribute |-> "brightness", old |-> 51, new |-> 204]
         [] id = "bri 80->42" -> [attribute |-> "brightness", old |-> 204, new |-> 107]
         [] id = "bri 60->59" -> [attribute |-> "brightness", old |-> 153, new |-> 151]
         [] id = "pct 80->60" -> [attribute |-> "brightness_pct", old |-> 80, new |-> 60]
         [] id = "kelvin 4000->3100" ->
                [attribute |-> "color_temp_kelvin", old |-> 4000, new |-> 3100]
         [] id = "kelvin 4000->3500" ->
                [attribute |-> "color_temp_kelvin", old |-> 4000, new |-> 3500]]

\* last keeps the attribute and the name of the change
LightAttr ==
    \E l \in Lights : \E id \in DOMAIN AttrChange :
        LET ch == AttrChange[id]
        IN /\ Inbound("light_attr", l, ch.attribute, id)
           /\ Commit(_on_light_attr(Self, l, ch.attribute, ch.old, ch.new))
           /\ UNCHANGED << Config, World >>

LuxChanged ==
    \E new \in LuxValues \ {lux} : \E b \in BriReads :
        /\ Inbound("lux", "-", "-", "-")
        /\ lux' = new
        /\ Commit(_on_lux_changed(Self, b))
        /\ UNCHANGED << Config, now, clock, motion, light, media >>

MediaState ==
    \E new \in {"playing", "paused"} \ {media} : \E b \in BriReads :
        /\ Inbound("media", "-", media, new)
        /\ media' = new
        /\ Commit(_on_media_state(Self, new, b))
        /\ UNCHANGED << Config, now, clock, motion, light, lux >>

ButtonPress ==
    \E ent \in {reauto_button, "button.other"} :
        /\ Inbound("button", ent, "-", "-")
        /\ Commit(_on_button_press(Self, ent))
        /\ UNCHANGED << Config, World >>

AutoOffElapsed ==
    \E t \in Due("auto_off") :
        /\ Callback("auto_off", "-")
        /\ Commit(_auto_off_elapsed(Fired(t)))

ReautomateFromMotion ==
    \E t \in Due("motion_reauto") :
        /\ Callback("motion_reauto", "-")
        /\ Commit(_reautomate_from_motion(Fired(t)))

ReautomateFromManualOff ==
    \E t \in Due("manual_off_reauto") :
        /\ Callback("manual_off_reauto", "-")
        /\ Commit(_reautomate_from_manual_off(Fired(t)))

AlResetTimerCb ==
    \E t \in Due("al_reset") :
        /\ Callback("al_reset", t.ent)
        /\ Commit(_al_reset_timer_cb(Fired(t), t.ent))

Next ==
    \/ Tick
    \/ Motion
    \/ LightPower
    \/ LightAttr
    \/ LuxChanged
    \/ MediaState
    \/ ButtonPress
    \/ AutoOffElapsed
    \/ ReautomateFromMotion
    \/ ReautomateFromManualOff
    \/ AlResetTimerCb

Spec == Init /\ [][Next]_vars

\* The host's scheduler: time passes, and a callback that is due does not stay
\* pending for ever (the host runs it; the controller may cancel it).
CallbackNames == {"auto_off", "motion_reauto", "manual_off_reauto", "al_reset"}
FairSpec ==
    /\ Spec
    /\ WF_vars(Tick)
    /\ \A cb \in CallbackNames : []<>(Due(cb) = {})

(***************************************************************************)
(* The controller on a host whose call_service can raise: a handler may     *)
(* run while the actuation services, or the adaptation services, fail.     *)
(***************************************************************************)
Actuation == {"light/turn_on", "light/turn_off"}
Adaptation == {"adaptive_lighting/set_manual_control", "adaptive_lighting/reset"}
FailureKinds == {Actuation, Adaptation}

\* some external call of the handler that left trace tr failed
CallFailed(tr) == \E i \in 1..Len(tr) : tr[i][1] = "call_service_raised"

MotionFailing ==
    \E ent \in MotionEntities : \E new \in {"on", "off"} \ {motion[ent]} :
      \E b \in BriReads : \E F \in FailureKinds :
        LET m == [motion EXCEPT ![ent] = new]
            c == _on_motion(Failing(Self, F), new, m, b)
        IN /\ CallFailed(c.trace)
           /\ Inbound("motion", ent, motion[ent], new)
           /\ motion' = m
           /\ Commit(c)
           /\ UNCHANGED << Config, now, clock, light, lux, media >>

LightPowerFailing ==
    \E l \in Lights : \E new \in {"on", "off"} \ {light[l]} : \E F \in FailureKinds :
        LET c == _on_light_power(Failing(Self, F), l, light[l], new)
        IN /\ CallFailed(c.trace)
           /\ Inbound("light_power", l, light[l], new)
           /\ CountOf(c.timers, "manual_off_reauto") <= MaxManualOff
           /\ light' = [light EXCEPT ![l] = new]
           /\ Commit(c)
           /\ UNCHANGED << Config, now, clock, motion, lux, media >>

AutoOffElapsedFailing ==
    \E t \in Due("auto_off") : \E F \in FailureKinds :
        LET c == _auto_off_elapsed(Failing(Fired(t), F))
        IN /\ CallFailed(c.trace)
           /\ Callback("auto_off", "-")
           /\ Commit(c)

ReautomateFromMotionFailing ==
    \E t \in Due("motion_reauto") : \E F \in FailureKinds :
        LET c == _reautomate_from_motion(Failing(Fired(t), F))
        IN /\ CallFailed(c.trace)
           /\ Callback("motion_reauto", "-")
           /\ Commit(c)

AlResetTimerCbFailing ==
    \E t \in Due("al_reset") : \E F \in FailureKinds :
        LET c == _al_reset_timer_cb(Failing(Fired(t), F), t.ent)
        IN /\ CallFailed(c.trace)
           /\ Callback("al_reset", t.ent)
           /\ Commit(c)

\* presence sensors, light switches and the scheduler drive the zone
FailNext ==
    \/ Tick
    \/ Motion
    \/ LightPower
    \/ AutoOffElapsed
    \/ ReautomateFromMotion
    \/ ReautomateFromManualOff
    \/ AlResetTimerCb
    \/ MotionFailing
    \/ LightPowerFailing
    \/ AutoOffElapsedFailing
    \/ ReautomateFromMotionFailing
    \/ AlResetTimerCbFailing

SpecFail == Init /\ [][FailNext]_vars

(***************************************************************************)
(* A zone configured with a default automatic brightness, driven by its   *)
(* lights, lux sensor and media player; the player also reports "idle".   *)
(***************************************************************************)
ConfiguredAutoBrightness == 70

MediaInit ==
    /\ mode = "auto"
    /\ presence = FALSE
    /\ off_timer = None
    /\ motion_reauto_timer = None
    /\ expected_echo = [l \in Lights |-> NoEcho]
    /\ last_cmd_by_entity = [l \in Lights |-> NoCmd]
    /\ media_playing = FALSE
    /\ before_media_brightness_pct = [l \in Lights |-> KeyAbsent]
    /\ al_manual_timers = [l \in Lights |-> None]
    /\ auto_brightness_pct \in {NoInt, ConfiguredAutoBrightness}
    /\ block_windows = ZoneWindows
    /\ quiet = [start |-> NoText, end |-> NoText]
    /\ block_actions_default = S_on_off
    /\ status = [state |-> "auto", manual_state |-> "auto",
                 presence |-> {}, media_playing |-> {}]
    /\ timers = EmptyBag
    /\ now = started_ts
    /\ clock \in {[min |-> mn, day |-> Mon] : mn \in ClockSamples}
    /\ motion = [ent \in MotionEntities |-> "off"]
    /\ light = [l \in Lights |-> "off"]
    /\ lux = 5
    /\ media = "paused"
    /\ events = 0
    /\ calls = <<>>
    /\ trace = <<>>
    /\ last = NoLast

\* the player stops altogether
MediaIdle ==
    \E b \in BriReads :
        /\ media # "idle"
        /\ Inbound("media", "-", media, "idle")
        /\ media' = "idle"
        /\ Commit(_on_media_state(Self, "idle", b))
        /\ UNCHANGED << Config, now, clock, motion, light, lux >>

MediaNext ==
    \/ Tick
    \/ LightPower
    \/ LuxChanged
    \/ MediaState
    \/ MediaIdle

SpecMedia == MediaInit /\ [][MediaNext]_vars

(***************************************************************************)
(* The block-window evaluator alone: any of the configurations below, at   *)
(* any sampled time of the week.                                           *)
(***************************************************************************)
TimeTexts == {T("0","7","0","0"), T("0","8","0","0"),
              T("0","9","0","0"), T("2","2","0","0")}
ActionValues == {NoAction, BoolAction(TRUE), StrAction(S_on), StrAction(S_off),
                 StrAction(S_on_off), StrAction(<<" ","O","n"," ">>)}
Tue == <<"t","u","e">>
DayLists == {<<>>, <<Mon>>, << <<"T","u","e","s","d","a","y">> >>}
\* texts _parse_hhmm cannot read: no colon, no digits, an absent key, no minutes
MalformedTexts == {<<"7">>, <<"a","b",":","c","d">>, NoText, <<"0","7",":">>}
PlainWindow(st, en) == [start |-> st, end |-> en, days |-> <<>>, actions |-> NoAction]
\* one window with an unreadable start or end, alone or ahead of a readable one
MalformedWindows == {PlainWindow(<<"7">>, T("0","9","0","0")),
                     PlainWindow(T("0","7","0","0"), <<"a","b",":","c","d">>),
                     PlainWindow(NoText, NoText)}
MalformedWindowLists ==
    {<< PlainWindow(st, en) >> :
        st \in TimeTexts \cup MalformedTexts, en \in MalformedTexts}
    \cup {<< PlainWindow(st, en) >> : st \in MalformedTexts, en \in TimeTexts}
    \cup {<< b, PlainWindow(st, en) >> :
             b \in MalformedWindows, st \in TimeTexts, en \in TimeTexts}
WindowLists ==
    {<<>>, ZoneWindows}
    \cup {<< [start |-> st, end |-> en, days |-> ds, actions |-> a] >> :
            st \in TimeTexts, en \in TimeTexts, ds \in DayLists, a \in ActionValues}
    \cup MalformedWindowLists
QuietPairs == {[start |-> NoText, end |-> NoText],
               [start |-> T("2","2","0","0"), end |-> T("0","7","0","0")]}
\* 00:00, 06:59, 07:00, 08:30, 21:59, 22:00, 23:30
MinuteSamples == {0, 419, 420, 510, 1319, 1320, 1410}
ClockValues == {[min |-> mn, day |-> d] : mn \in MinuteSamples, d \in {Mon, Tue}}

Answer(b) == IF b THEN "allowed" ELSE "blocked"

BlockInit ==
    /\ mode = "auto"
    /\ presence = FALSE
    /\ off_timer = None
    /\ motion_reauto_timer = None
    /\ expected_echo = [l \in Lights |-> NoEcho]
    /\ last_cmd_by_entity = [l \in Lights |-> NoCmd]
    /\ media_playing = FALSE
    /\ before_media_brightness_pct = [l \in Lights |-> KeyAbsent]
    /\ al_manual_timers = [l \in Lights |-> None]
    /\ auto_brightness_pct = NoInt
    /\ block_windows \in WindowLists
    /\ quiet \in QuietPairs
    /\ block_actions_default \in {S_on, S_off, S_on_off}
    /\ status = [state |-> "auto", manual_state |-> "auto",
                 presence |-> {}, media_playing |-> {}]
    /\ timers = EmptyBag
    /\ now = started_ts
    /\ clock \in ClockValues
    /\ motion = [ent \in MotionEntities |-> "off"]
    /\ light = [l \in Lights |-> "off"]
    /\ lux = 5
    /\ media = "paused"
    /\ events = 0
    /\ calls = <<>>
    /\ trace = <<>>
    /\ last = NoLast

\* _automation_allowed("on") and ("off") are asked at some time of the week;
\* last keeps the two answers, trace the reason _blocked_now gave
AskAllowed ==
    \E clk \in ClockValues :
        LET b == BlockedAt(block_windows, quiet, block_actions_default, clk)
        IN /\ clock' = clk
           /\ trace' = << b.why >>
           /\ last' = [op |-> "automation_allowed", ent |-> "-",
                       old |-> Answer(AllowedGiven(b, "on")),
                       new |-> Answer(AllowedGiven(b, "off"))]
           /\ UNCHANGED << Controller, Config, now, motion, light, lux, media,
                           events, calls >>

BlockNext == AskAllowed

SpecBlock == BlockInit /\ [][BlockNext]_vars

(***************************************************************************)
(* Vocabulary of the properties.                                           *)
(***************************************************************************)
Modes == {"auto", "manual_on", "manual_off"}
TraceHas(tr, tag) == \E i \in 1..Len(tr) : tr[i] = tag
Issued(tr, what) == \E i \in 1..Len(tr) : tr[i][1] = what
CalledFor(cs, svc, l) == \E i \in 1..Len(cs) : cs[i].svc = svc /\ cs[i].entity_id = l
PastBootGrace == (now - started_ts) >= boot_grace

\* the light has an unexpired expectation whose direction old -> new matches
EchoMatch(l, old, new) ==
    /\ expected_echo[l] # NoEcho
    /\ now <= expected_echo[l].until
    /\ \/ expected_echo[l].expected = "on" /\ ~IsOn(old) /\ IsOn(new)
       \/ expected_echo[l].expected = "off" /\ IsOn(old) /\ ~IsOn(new)

EchoStale(l) == expected_echo[l] # NoEcho /\ now > expected_echo[l].until

\* this step delivers a light-power notification
PowerStep == last'.op = "light_power" /\ events' = events + 1

\* a re-automation path has just run
ReautomationRan ==
    \/ last.op \in {"motion_reauto", "manual_off_reauto"}
    \/ last.op = "button" /\ last.ent = reauto_button

\* C1: the mode is always one of auto, manual_on, manual_off, and it is auto
\* right after initialize.
C1_ModeIsOneOfThree ==
    /\ mode \in Modes
    /\ last.op = "initialize" => mode = "auto"

C1_Witness ==
    /\ last.op = "manual_off_reauto"
    /\ mode = "auto"
    /\ events >= 3

\* C2: a light-power notification that matches an unexpired expectation never
\* changes the mode; the expectation is kept, so later matching notifications
\* are suppressed too, and only the first one logs.
C2_EchoNeverChangesMode ==
    [][ (PowerStep /\ EchoMatch(last'.ent, last'.old, last'.new))
        => /\ mode' = mode
           /\ timers' = timers
           /\ calls' = <<>>
           /\ expected_echo'[last'.ent] # NoEcho
           /\ expected_echo'[last'.ent].until = expected_echo[last'.ent].until
           /\ expected_echo'[last'.ent].expected = expected_echo[last'.ent].expected
           /\ expected_echo[last'.ent].logged
                => ~TraceHas(trace', <<"ignoring_echo">>) ]_vars

C2_Witness ==
    /\ last.op = "light_power"
    /\ trace = << <<"return_echo">> >>
    /\ expected_echo[last.ent] # NoEcho
    /\ expected_echo[last.ent].logged

\* C3: a handler that issued turn-on (turn-off) leaves, for every light, a call
\* for that light and an expectation of "on" ("off"), not yet logged, that
\* expires at min(now + echo_window, now + echo_max_window).
C3_CommandMarksEveryLight ==
    \A st \in {"on", "off"} :
        Issued(trace, IF st = "on" THEN "turn_on" ELSE "turn_off")
        => \A l \in Lights :
             /\ CalledFor(calls, IF st = "on" THEN "light/turn_on"
                                 ELSE "light/turn_off", l)
             /\ expected_echo[l] =
                  [until |-> Min(now + echo_window, now + echo_max_window),
                   expected |-> st, logged |-> FALSE]
             /\ last_cmd_by_entity[l] = [state |-> st, ts |-> now]

C3_Witness ==
    /\ last.op = "auto_off"
    /\ TraceHas(trace, <<"turn_off", "auto_off">>)

\* what a light-power notification does when it is handled as a human change
HumanMode(old, new) ==
    IF IsOn(old) /\ ~IsOn(new) THEN "manual_off"
    ELSE IF ~IsOn(old) /\ IsOn(new) THEN "manual_on"
    ELSE mode

EchoExact ==
    LET l == last'.ent
        old == last'.old
        new == last'.new
    IN /\ TraceHas(trace', <<"return_echo">>) => EchoMatch(l, old, new)
       /\ EchoStale(l)
            => (expected_echo'[l] = NoEcho /\ mode' = HumanMode(old, new))
       /\ (expected_echo[l] # NoEcho /\ ~EchoStale(l) /\ ~EchoMatch(l, old, new))
            => mode' = HumanMode(old, new)

\* C4 as stated: a light-power notification is suppressed as an echo only when
\* an unexpired expectation matches its direction; a notification that finds a
\* stale expectation evicts it and is handled as a human change (on->off gives
\* manual_off, off->on gives manual_on), and so is one in the opposite
\* direction to an unexpired expectation.
C4_EchoExactAlways == [][ PowerStep => EchoExact ]_vars

\* C4 as amended: the same, for notifications past boot grace.
C4_EchoExactPastBootGrace == [][ (PowerStep /\ PastBootGrace) => EchoExact ]_vars

C4_Witness ==
    /\ last.op = "light_power"
    /\ TraceHas(trace, <<"manual_off">>)
    /\ expected_echo[last.ent] = NoEcho
    /\ \E l \in Lights : EchoStale(l)

\* C5: an unsuppressed on->off past boot grace leaves the mode manual_off with a
\* manual-off callback pending, due no later than manual_off_reauto_delay from
\* now (scheduled by this very notification when the mode was not manual_off
\* already); a pending manual-off callback runs when it is due; when it has run
\* the mode is auto, turn-on was issued if presence, darkness and ON allowed
\* hold, and turn-off if presence is false or it is not dark.
C5_OffSchedules ==
    (PowerStep /\ PastBootGrace /\ IsOn(last'.old) /\ ~IsOn(last'.new)
       /\ ~EchoMatch(last'.ent, last'.old, last'.new))
    => /\ mode' = "manual_off"
       /\ \E t \in PendingOf(timers', "manual_off_reauto") :
              now <= t.due /\ t.due <= now + manual_off_reauto_delay
       /\ mode # "manual_off"
            => LET t == [cb |-> "manual_off_reauto", ent |-> "-", tracked |-> FALSE,
                         due |-> now + manual_off_reauto_delay]
               IN CopiesIn(t, timers') = CopiesIn(t, timers) + 1

C5_FiredReautomates ==
    last.op = "manual_off_reauto"
    => /\ mode = "auto"
       /\ (presence /\ _is_dark_enough /\ _automation_allowed("on"))
            => (Issued(trace, "turn_on")
                /\ \A l \in Lights : CalledFor(calls, "light/turn_on", l))
       /\ (~presence \/ ~_is_dark_enough)
            => (Issued(trace, "turn_off")
                /\ \A l \in Lights : CalledFor(calls, "light/turn_off", l))

C6_OnStep ==
    (PowerStep /\ PastBootGrace /\ ~IsOn(last'.old) /\ IsOn(last'.new)
       /\ ~EchoMatch(last'.ent, last'.old, last'.new))
    => /\ mode' = "manual_on"
       /\ PendingOf(timers', "auto_off") = {}

C6_ManualOnCancelsAutoOff ==
    /\ [][C6_OnStep]_vars
    /\ [] (mode = "manual_on" => PendingOf(timers, "auto_off") = {})

C6_Witness ==
    /\ last.op = "light_power"
    /\ TraceHas(trace, <<"manual_on">>)
    /\ off_timer = "auto_off"
    /\ PendingOf(timers, "auto_off") = {}

\* C7: with no window active both actions are allowed; an active window with
\* actions on blocks ON only, with off blocks OFF only, with on_off blocks both.
C7_BlockFollowsActionSet ==
    LET b == _blocked_now
        on_ok == _automation_allowed("on")
        off_ok == _automation_allowed("off")
    IN /\ ~b.blocked => (on_ok /\ off_ok)
       /\ (b.blocked /\ b.actions = S_on) => (~on_ok /\ off_ok)
       /\ (b.blocked /\ b.actions = S_off) => (on_ok /\ ~off_ok)
       /\ (b.blocked /\ b.actions = S_on_off) => (~on_ok /\ ~off_ok)

\* C8: a re-automation path issues turn-on only when presence is true, it is
\* dark enough and ON is not blocked.
C8_ReautomationOnOnlyIfAllowed ==
    (ReautomationRan /\ Issued(trace, "turn_on"))
    => (presence /\ _is_dark_enough /\ _automation_allowed("on"))

\* C9: a re-automation path that finds the turn-on condition false while OFF is
\* blocked issues no command and creates no expectation.
C9_ReautomationOffOnlyIfAllowed ==
    (ReautomationRan /\ ~_automation_allowed("off")
       /\ ~(presence /\ _is_dark_enough /\ _automation_allowed("on")))
    => /\ ~Issued(trace, "turn_off")
       /\ calls = <<>>

\* C10: after a presence-sensor event the presence flag is the OR of the
\* sensors' current states.
C10_PresenceIsOrOfSensors ==
    last.op = "motion" => (presence <=> _any_motion_on(motion))

\* this step delivers a light-attribute notification
AttrStep == last'.op = "light_attr" /\ events' = events + 1

\* the handler that ran last commanded light l: on/off, or on with brightness p
Commanded(l, svc) ==
    \E i \in 1..Len(calls) : calls[i].svc = svc /\ calls[i].entity_id = l
CommandedPct(l, p) ==
    \E i \in 1..Len(calls) :
        /\ calls[i].svc = "light/turn_on" /\ calls[i].entity_id = l
        /\ calls[i].brightness_pct = p

\* this step notifies what the last handler's own command did to the light
OwnEchoStep ==
    \/ /\ PowerStep
       /\ \/ ~IsOn(last'.old) /\ IsOn(last'.new) /\ Commanded(last'.ent, "light/turn_on")
          \/ IsOn(last'.old) /\ ~IsOn(last'.new) /\ Commanded(last'.ent, "light/turn_off")
    \/ /\ AttrStep
       /\ last'.old = "brightness"
       /\ IsOn(light[last'.ent])
       /\ CommandedPct(last'.ent, BriToPct(AttrChange[last'.new].new))

\* C11: the notification of the controller's own command (the on/off echo of
\* turn-on and turn-off, the brightness change or off->on change a media dim or
\* restore command produces) never moves the mode to a manual state.
C11_OwnCommandNeverManual ==
    [][ OwnEchoStep => (mode' \in {"manual_on", "manual_off"} => mode' = mode) ]_vars

\* the action ("on" / "off") is in the action set of the window active now
Blocked(action) ==
    /\ _blocked_now.blocked
    /\ _blocked_now.actions \in {IF action = "on" THEN S_on ELSE S_off, S_on_off}

\* this step delivers a presence-sensor event
MotionStep == last'.op = "motion" /\ events' = events + 1

OnExpectation ==
    [until |-> Min(now + echo_window, now + echo_max_window),
     expected |-> "on", logged |-> FALSE]

\* C12: in auto, a presence-on event while it is dark enough, ON is not blocked
\* and no light is on sends turn-on to every light and leaves an "on"
\* expectation for every light; the mode stays auto and no auto-off callback
\* is pending afterwards.
C12_PresenceOnTurnsOn ==
    [][ (MotionStep /\ IsPresence(last'.new) /\ mode = "auto" /\ _is_dark_enough
           /\ ~Blocked("on") /\ ~_any_light_on)
        => /\ mode' = "auto"
           /\ \A l \in Lights :
                /\ \E i \in 1..Len(calls') :
                      calls'[i].svc = "light/turn_on" /\ calls'[i].entity_id = l
                /\ expected_echo'[l] = OnExpectation
           /\ PendingOf(timers', "auto_off") = {} ]_vars

C12_Witness ==
    /\ last.op = "motion"
    /\ TraceHas(trace, <<"turn_on", "motion">>)
    /\ mode = "auto"
    /\ off_timer = "auto_off"
    /\ PendingOf(timers, "auto_off") = {}

\* C13: when the auto-off callback has run, turn-off was issued if and only if
\* the mode is auto, presence is false and OFF is not blocked; the auto-off
\* slot is empty afterwards.
C13_AutoOffIffAllowed ==
    last.op = "auto_off"
    => /\ Issued(trace, "turn_off")
            <=> (mode = "auto" /\ ~presence /\ ~Blocked("off"))
       /\ off_timer = None

\* how many callbacks cb for entity ent are pending
PendingCount(cb, ent) ==
    LET S == {t \in BagToSet(timers) : t.cb = cb /\ t.ent = ent}
    IN BagCardinality([t \in S |-> timers[t]])

\* C14: at most one auto-off callback, one quick re-automate callback and, per
\* light, one manual-hold callback is pending; a handler that scheduled the
\* auto-off leaves exactly the one it scheduled, and a held handle refers to
\* at most one pending callback.
C14_OneTimerPerPurpose ==
    /\ PendingCount("auto_off", "-") <= 1
    /\ PendingCount("motion_reauto", "-") <= 1
    /\ \A l \in Lights : PendingCount("al_reset", l) <= 1
    /\ TraceHas(trace, <<"scheduled_auto_off">>)
         => timers = SetToBag({[cb |-> "auto_off", due |-> now + delay_off,
                                ent |-> "-", tracked |-> TRUE]})
                     (+) [t \in {u \in BagToSet(timers) : u.cb # "auto_off"} |-> timers[t]]
    /\ TraceHas(trace, <<"motion_during_manual_on">>)
         => PendingOf(timers, "motion_reauto")
              = {[cb |-> "motion_reauto", due |-> now + motion_reauto_seconds,
                  ent |-> "-", tracked |-> TRUE]}

\* a manual tweak on a light whose manual hold was already running: the hold
\* was rescheduled, and one callback is pending for it
C14_Witness ==
    /\ last.op = "light_attr"
    /\ mode = "manual_on"
    /\ ~TraceHas(trace, <<"manual_tweak">>)
    /\ CalledFor(calls, "adaptive_lighting/set_manual_control", last.ent)
    /\ al_manual_timers[last.ent] = "al_reset"
    /\ PendingCount("al_reset", last.ent) = 1
    /\ \E t \in PendingOf(timers, "al_reset") :
           t.ent = last.ent /\ t.due = now + al_manual_reset_seconds

\* C15: at most one manual-off re-automation callback is ever pending.
C15_OneManualOffTimer == PendingCount("manual_off_reauto", "-") <= 1

\* C16: during boot grace no light-power or light-attribute notification
\* changes the mode, cancels or schedules a callback, calls a service or
\* touches a timer slot or an expectation.
C16_BootGraceSuppresses ==
    [][ ((PowerStep \/ AttrStep) /\ ~PastBootGrace)
        => /\ mode' = mode
           /\ timers' = timers
           /\ calls' = <<>>
           /\ off_timer' = off_timer
           /\ motion_reauto_timer' = motion_reauto_timer
           /\ al_manual_timers' = al_manual_timers
           /\ expected_echo' = expected_echo ]_vars

\* a brightness change of a light that is on, with an auto-off pending, is
\* dropped during boot grace
C16_Witness ==
    /\ last.op = "light_attr"
    /\ last.new = "bri 80->20"
    /\ ~PastBootGrace
    /\ IsOn(light[last.ent])
    /\ trace = << <<"boot_grace">> >>
    /\ mode = "auto"
    /\ PendingOf(timers, "auto_off") # {}

\* the conditions of a manual tweak, for the notification ch about light l
NoRecentCommand(l) ==
    \/ last_cmd_by_entity[l] = NoCmd
    \/ now - last_cmd_by_entity[l].ts > Max(echo_window, 3)

LooksLikeOwnAdaptation(ch) ==
    CASE ch.attribute = "brightness" ->
           Abs(AlAttrs.brightness_pct - RoundDiv(ch.new * 100, 255)) <= 3
      [] ch.attribute = "brightness_pct" -> Abs(AlAttrs.brightness_pct - ch.new) <= 3
      [] ch.attribute = "color_temp_kelvin" ->
           Abs(AlAttrs.color_temp_kelvin - ch.new) <= 150

AtOrAboveThreshold(ch) ==
    IF ch.attribute = "color_temp_kelvin" THEN Abs(ch.new - ch.old) >= 100
    ELSE Abs(ch.new - ch.old) >= 5

TweakConditions(l, ch) ==
    /\ PastBootGrace
    /\ NoRecentCommand(l)
    /\ ~LooksLikeOwnAdaptation(ch)
    /\ AtOrAboveThreshold(ch)
    /\ IsOn(light[l])

WellFormed(text) ==
    /\ Len(text) = 5
    /\ text[3] = ":"
    /\ \A i \in {1, 2, 4, 5} : IsDigit(text[i])
MinuteOf(text) ==
    (DigitVal(text[1]) * 10 + DigitVal(text[2])) * 60
        + DigitVal(text[4]) * 10 + DigitVal(text[5])

\* the window from start to end is expected to match minute t
Matches(start, end, t) ==
    /\ WellFormed(start)
    /\ WellFormed(end)
    /\ LET s == MinuteOf(start)
           e == MinuteOf(end)
       IN \/ s < e /\ s <= t /\ t < e
          \/ s > e /\ (t >= s \/ t < e)

\* window w applies on the given day (no day list: every day)
DayListed(w, day) ==
    \/ w.days = <<>>
    \/ \E k \in 1..Len(w.days) : Take3(LowerStr(w.days[k])) = Take3(day)

\* C18: a window with start = end matches no time, one with start < end matches
\* exactly start <= t < end, one with start > end exactly t >= start or t < end
\* (22:00-07:00 matches 23:30, 00:00 and 06:59, not 07:00 or 21:59); a window
\* whose start or end cannot be parsed matches no time and later windows are
\* still evaluated.
C18_WindowMatching ==
    /\ \A i \in 1..Len(block_windows) :
          LET w == block_windows[i]
          IN _within_window(_parse_hhmm(w.start), _parse_hhmm(w.end), clock.min)
               <=> Matches(w.start, w.end, clock.min)
    /\ _blocked_now.blocked
         <=> \/ \E i \in 1..Len(block_windows) :
                   /\ Matches(block_windows[i].start, block_windows[i].end, clock.min)
                   /\ DayListed(block_windows[i], clock.day)
             \/ Matches(quiet.start, quiet.end, clock.min)
    /\ (block_windows = << PlainWindow(T("2","2","0","0"), T("0","7","0","0")) >>
          /\ quiet.start = NoText)
         => (_blocked_now.blocked <=> clock.min \in {1320, 1410, 0, 419})

\* asked at 23:30: the first window is unreadable, the second (22:00-07:00) blocks
C18_Witness ==
    /\ last.op = "automation_allowed"
    /\ last.old = "blocked"
    /\ clock.min = 1410
    /\ block_windows = << PlainWindow(<<"7">>, T("0","9","0","0")),
                          PlainWindow(T("2","2","0","0"), T("0","7","0","0")) >>
    /\ quiet.start = NoText
    /\ block_actions_default = S_on_off

\* this step delivers the media player's change from playing to not playing
MediaStopStep ==
    /\ last'.op = "media" /\ events' = events + 1
    /\ last'.old = "playing" /\ last'.new # "playing"

\* light l has a captured pre-dim brightness (a number)
Captured(l) == before_media_brightness_pct[l] \notin {KeyAbsent, NoInt}

\* C19: when media goes from playing to not playing, every light with a captured
\* pre-dim brightness is commanded back to it and nothing stays captured,
\* whatever the mode and the lights' states are at that moment.
C19_StopRestoresAndClears ==
    [][ MediaStopStep
        => /\ \A l \in Lights :
                 Captured(l)
                 => \E i \in 1..Len(calls') :
                        /\ calls'[i].svc = "light/turn_on"
                        /\ calls'[i].entity_id = l
                        /\ calls'[i].brightness_pct = before_media_brightness_pct[l]
           /\ before_media_brightness_pct' = [l \in Lights |-> KeyAbsent] ]_vars

\* this step applies the media-dim overlay
DimStep == events' = events + 1 /\ TraceHas(trace', <<"media_dimming">>)

\* C20: applying the media-dim overlay again with no restore in between leaves
\* what the first application recorded for each light as it is, whatever
\* brightness the light reports by then.
C20_DimCapturesOnce ==
    [][ DimStep
        => \A l \in Lights :
               before_media_brightness_pct[l] # KeyAbsent
               => before_media_brightness_pct'[l] = before_media_brightness_pct[l] ]_vars

\* the overlay has just been applied with light.b on, and its record is still
\* the one taken while it was off; light.a keeps the 80 % of the first time
C20_Witness ==
    /\ TraceHas(trace, <<"media_dimming">>)
    /\ IsOn(light["light.b"])
    /\ before_media_brightness_pct["light.b"] = NoInt
    /\ before_media_brightness_pct["light.a"] = 80

\* this step delivers a change of the player between two states other than
\* playing while nothing is captured: a restore right after a restore
SecondRestoreStep ==
    /\ last'.op = "media" /\ events' = events + 1
    /\ last'.old # "playing" /\ last'.new # "playing"
    /\ \A l \in Lights : before_media_brightness_pct[l] = KeyAbsent

\* C21: with nothing captured, a second restore in a row issues no light command
\* and changes no controller state, also when a default automatic brightness
\* is configured.
C21_SecondRestoreIsNoOp ==
    [][ SecondRestoreStep
        => /\ calls' = <<>>
           /\ UNCHANGED << mode, presence, off_timer, motion_reauto_timer,
                           expected_echo, last_cmd_by_entity, media_playing,
                           before_media_brightness_pct, al_manual_timers,
                           timers >> ]_vars

\* mode, timer state and published status a handler ends with
Progress(c) ==
    << c.mode, c.off_timer, c.motion_reauto_timer, c.al_manual_timers, c.timers,
       c.status >>

\* what the handler of this step ends with when every external call succeeds
SameAsSucceeding(p) ==
    CASE last'.op = "motion" ->
           \E b \in BriReads : p = Progress(_on_motion(Self, last'.new, motion', b))
      [] last'.op = "light_power" ->
           p = Progress(_on_light_power(Self, last'.ent, last'.old, last'.new))
      [] last'.op = "auto_off" ->
           \E t \in Due("auto_off") : p = Progress(_auto_off_elapsed(Fired(t)))
      [] last'.op = "motion_reauto" ->
           \E t \in Due("motion_reauto") : p = Progress(_reautomate_from_motion(Fired(t)))
      [] last'.op = "al_reset" ->
           \E t \in Due("al_reset") :
               t.ent = last'.ent /\ p = Progress(_al_reset_timer_cb(Fired(t), t.ent))
      [] OTHER -> TRUE

\* C22: a failing external call (turn_on / turn_off of a light, or an
\* adaptation-service call) does not alter the progression: the handler ends in
\* the same mode and timer state, with the same status published, as when the
\* call succeeds.
C22_FailingCallSameProgress ==
    [][ CallFailed(trace')
        => SameAsSucceeding(<< mode', off_timer', motion_reauto_timer',
                               al_manual_timers', timers', status' >>) ]_vars

\* the quick re-automate callback a presence event at this moment schedules
QuickReautomate ==
    [cb |-> "motion_reauto", due |-> now + motion_reauto_seconds, ent |-> "-",
     tracked |-> TRUE]

C23_MotionInManualOn ==
    (MotionStep /\ mode = "manual_on" /\ IsPresence(last'.new))
    => /\ mode' = "manual_on"
       /\ calls' = <<>>
       /\ expected_echo' = expected_echo
       /\ PendingOf(timers', "motion_reauto") = {QuickReautomate}
       /\ CopiesIn(QuickReautomate, timers') = 1
       /\ motion_reauto_timer' = "motion_reauto"

C23_Fired ==
    last.op = "motion_reauto"
    => /\ mode = "auto"
       /\ motion_reauto_timer = None
       /\ \/ Issued(trace, "turn_on")
          \/ Issued(trace, "turn_off")
          \/ TraceHas(trace, <<"motion_reauto_on_blocked">>)

\* C23: in manual_on a presence-on event leaves the mode manual_on, issues no
\* light command and leaves exactly one quick re-automate callback pending, the
\* one it scheduled; when that callback fires the mode becomes auto and the
\* re-automation evaluation runs; a pending quick re-automate callback leads to
\* auto unless further motion has pushed it back.
C23_ManualOnMotionReautomates ==
    /\ [][C23_MotionInManualOn]_vars
    /\ [] C23_Fired
    /\ \A d \in 0..MaxTime :
         (mode = "manual_on"
            /\ \E t \in PendingOf(timers, "motion_reauto") : t.due = d)
         ~> \/ mode = "auto"
            \/ \E t \in PendingOf(timers, "motion_reauto") : t.due > d

\* the quick re-automate callback scheduled by motion during manual_on has
\* fired and turned the lights on under auto
C23_Witness ==
    /\ last.op = "motion_reauto"
    /\ mode = "auto"
    /\ presence
    /\ TraceHas(trace, <<"turn_on", "motion_reauto">>)
    /\ status.state = "auto"

\* this step runs a re-automation callback in a mode other than the manual
\* mode that scheduled it
StaleReautomationStep ==
    \/ last'.op = "motion_reauto" /\ (\E t \in Due("motion_reauto") : TRUE)
         /\ mode # "manual_on"
    \/ last'.op = "manual_off_reauto" /\ (\E t \in Due("manual_off_reauto") : TRUE)
         /\ mode # "manual_off"

\* C24: a quick re-automate callback that fires when the mode is no longer
\* manual_on, and a manual-off re-automation callback that fires when the mode
\* is no longer manual_off, changes neither the mode nor issues a light command.
C24_StaleTimerDoesNothing ==
    [][ StaleReautomationStep => (mode' = mode /\ calls' = <<>>) ]_vars

\* this step notifies an off->on change that is past boot grace and not an echo
HumanOnStep ==
    /\ PowerStep /\ PastBootGrace
    /\ ~IsOn(last'.old) /\ IsOn(last'.new)
    /\ ~EchoMatch(last'.ent, last'.old, last'.new)

C25_HoldExpiry ==
    (last'.op = "al_reset" /\ \E t \in Due("al_reset") : t.ent = last'.ent)
    => /\ mode' = mode
       /\ calls' = << [svc |-> "adaptive_lighting/reset", entity_id |-> last'.ent,
                       brightness_pct |-> NoInt, color_temp_kelvin |-> NoInt] >>

\* C25: every off->on notification past boot grace that is not an echo, for any
\* light and from any mode (manual_on because of another light included),
\* requests manual control for that light and leaves a manual-hold callback
\* pending for it; an expiring hold releases that light only and keeps the mode.
C25_EveryManualOnTakesControl ==
    [][ /\ HumanOnStep
           => /\ CalledFor(calls', "adaptive_lighting/set_manual_control", last'.ent)
              /\ \E t \in PendingOf(timers', "al_reset") :
                     t.ent = last'.ent /\ t.due = now + al_manual_reset_seconds
        /\ C25_HoldExpiry ]_vars

ManualModes == {"manual_on", "manual_off"}

\* the handler of this step sent turn_on or turn_off to some light
LightCommanded(cs) ==
    \E i \in 1..Len(cs) : cs[i].svc \in {"light/turn_on", "light/turn_off"}

C26_Step ==
    mode \in ManualModes
    => /\ last'.op \in {"motion", "lux", "media", "auto_off"}
          => (calls' = <<>> /\ expected_echo' = expected_echo)
       /\ LightCommanded(calls')
          => /\ \/ last'.op \in {"motion_reauto", "manual_off_reauto"}
                \/ last'.op = "button" /\ last'.ent = reauto_button
             /\ mode' = "auto"

\* C26: while the mode is manual_on or manual_off, presence, lux and media
\* events and auto-off firings issue no light command and create no echo
\* expectation; a handler that commands a light from a manual mode is a
\* re-automation path and has set the mode to auto.
C26_ManualModesIssueNothing == [][C26_Step]_vars

\* media started playing in manual_on with a light on in the dark: the overlay
\* was not applied
C26_Witness ==
    /\ last.op = "media"
    /\ mode = "manual_on"
    /\ media_playing
    /\ _any_light_on /\ _is_dark_enough
    /\ calls = <<>>
    /\ before_media_brightness_pct = [l \in Lights |-> KeyAbsent]

\* the status entity as _publish_status writes it in this state
Snapshot ==
    [state |-> mode, manual_state |-> mode,
     presence |-> {presence}, media_playing |-> {media_playing}]

C27_Published ==
    /\ status.state = mode
    /\ status.manual_state = mode
    /\ status.presence \subseteq {presence}
    /\ status.media_playing \subseteq {media_playing}

C27_ChangeRepublishes ==
    (mode' # mode \/ presence' # presence \/ media_playing' # media_playing)
    => status' = Snapshot'

=============================================================================
